---- MODULE Spec2Model ----
(***************************************************************************)
(* Duplicate-file detection engine of photo-organizer-app                  *)
(* (src/src/duplicate_check.py): the staged scan (size buckets, sample     *)
(* digest, full digest), the retention policy / remover and the report.    *)
(*                                                                         *)
(* A file's content is a byte string kept run-length encoded: a sequence   *)
(* of runs [b |-> byte, n |-> count], canonical (every n > 0, adjacent     *)
(* runs have different bytes), so that two contents are the same byte      *)
(* string exactly when the two sequences are equal.  MD5 is taken to be    *)
(* collision free: a digest is the byte string fed to the hasher.          *)
(***************************************************************************)
EXTENDS Integers, Sequences, FiniteSets, TLC

VARIABLES
    root,           \* what folder_path is: "missing", "file", "unlistable", "dir"
    fs,             \* the directory's entries, in os.listdir order
    duplicates,     \* the caller's list of groups (the last scan's result)
    call,           \* the last call and its arguments
    removed_files,  \* what the last remove_duplicates returned
    keep_files,     \* the keep_file of each group it processed
    attempts,       \* its calls of os.remove, in order
    errlog,         \* the errors the last call logged
    raised,         \* whether an exception left the last call
    space_saved,    \* the last report's "space that could be saved"
    scans           \* how many times in a row the last scan was called (at most 2)

vars == <<root, fs, duplicates, call, removed_files, keep_files, attempts,
          errlog, raised, space_saved, scans>>

\* ------------------------------------------------------------------ bounds
\* Entries of the scanned directory.
MaxFiles == 3
\* Path occurrences in a list of groups handed to remove_duplicates by a caller.
MaxPaths == 4

\* ------------------------------------------------------- program constants
\* find_duplicate_photos_fast / find_duplicate_photos: min_size default.
DefaultMinSize == 1024
\* calculate_file_hash_sample: sample_size default.
DefaultSampleSize == 8192
\* calculate_file_hash_fast: chunk_size default.
DefaultChunkSize == 65536

\* Python's None.
None == [none |-> TRUE]

\* ------------------------------------------------------------ byte strings
Run(b, n) == [b |-> b, n |-> n]

\* bytes + bytes
Concat(c1, c2) ==
    IF c1 = <<>> THEN c2
    ELSE IF c2 = <<>> THEN c1
    ELSE IF c1[Len(c1)].b = c2[1].b
         THEN SubSeq(c1, 1, Len(c1) - 1)
              \o <<Run(c2[1].b, c1[Len(c1)].n + c2[1].n)>>
              \o Tail(c2)
         ELSE c1 \o c2

\* len(bytes)
RECURSIVE Size(_)
Size(c) == IF c = <<>> THEN 0 ELSE c[1].n + Size(Tail(c))

\* bytes[:k]
RECURSIVE Take(_, _)
Take(c, k) ==
    IF k <= 0 \/ c = <<>> THEN <<>>
    ELSE IF c[1].n <= k THEN <<c[1]>> \o Take(Tail(c), k - c[1].n)
    ELSE <<Run(c[1].b, k)>>

\* bytes[k:]
RECURSIVE Drop(_, _)
Drop(c, k) ==
    IF k <= 0 \/ c = <<>> THEN c
    ELSE IF c[1].n <= k THEN Drop(Tail(c), k - c[1].n)
    ELSE <<Run(c[1].b, c[1].n - k)>> \o Tail(c)

\* f.seek(pos); f.read(n): at most n bytes from position pos.
Read(c, pos, n) == Take(Drop(c, pos), n)

\* str(n).encode(): the decimal digits of n as ASCII bytes.
RECURSIVE StrEncode(_)
StrEncode(n) ==
    IF n < 10 THEN <<Run(48 + n, 1)>>
    ELSE Concat(StrEncode(n \div 10), <<Run(48 + (n % 10), 1)>>)

\* ------------------------------------------------------------- file system
\* fs is the directory's listing, in os.listdir order; an entry is
\* [name, kind, content, mtime, readable].  A path is the entry's name
\* (os.path.join(folder_path, filename) is one-to-one in filename).
Names(d) == {d[i].name : i \in DOMAIN d}

Entry(d, path) == d[CHOOSE i \in DOMAIN d : d[i].name = path]

\* os.path.exists(path) for a path inside the folder
Exists(d, path) == path \in Names(d)

\* os.path.isfile(path)
IsFile(d, path) == Exists(d, path) /\ Entry(d, path).kind = "file"

\* open(path, "rb") succeeds
CanOpen(d, path) == IsFile(d, path) /\ Entry(d, path).readable

\* os.path.getsize(path) of an existing path
GetSize(d, path) == Size(Entry(d, path).content)

\* os.path.getmtime(path) of an existing path
GetMTime(d, path) == Entry(d, path).mtime

\* os.remove(path): the listing without the entry
RECURSIVE OsRemove(_, _)
OsRemove(d, path) ==
    IF d = <<>> THEN <<>>
    ELSE IF d[1].name = path THEN Tail(d)
    ELSE <<d[1]>> \o OsRemove(Tail(d), path)

\* ------------------------------------------------------------------ digests
\* calculate_file_hash_fast: the hasher is fed the file chunk by chunk until
\* a read returns nothing; None when the file cannot be opened.
RECURSIVE HashChunks(_, _, _, _)
HashChunks(content, pos, chunk_size, hasher) ==
    LET chunk == Read(content, pos, chunk_size)
    IN  IF chunk = <<>> THEN hasher
        ELSE HashChunks(content, pos + Size(chunk), chunk_size,
                        Concat(hasher, chunk))

calculate_file_hash_fast(d, filepath, chunk_size) ==
    IF ~CanOpen(d, filepath) THEN None
    ELSE [md5 |-> HashChunks(Entry(d, filepath).content, 0, chunk_size, <<>>)]

\* calculate_file_hash_sample with the file's path fed to the hasher where the
\* file size belongs.
calculate_file_hash_sample_OfPath(d, filepath, sample_size) ==
    IF ~CanOpen(d, filepath) THEN None
    ELSE [md5 |-> Read(Entry(d, filepath).content, 0, sample_size),
          path |-> filepath]

\* calculate_file_hash_sample: first sample_size bytes, then the last
\* sample_size bytes when file_size > 2 * sample_size, then str(file_size).
calculate_file_hash_sample(d, filepath, sample_size) ==
    IF ~CanOpen(d, filepath) THEN None
    ELSE LET content == Entry(d, filepath).content
             file_size == Size(content)
             start_bytes == Read(content, 0, sample_size)
             h1 == Concat(<<>>, start_bytes)
             h2 == IF file_size > sample_size * 2
                   THEN Concat(h1, Read(content, file_size - sample_size,
                                        sample_size))
                   ELSE h1
         IN  [md5 |-> Concat(h2, StrEncode(file_size))]

\* The test of the digest left out.
Truthy_Always(h) == TRUE

\* "if sample_hash:" / "if full_hash:": a digest is truthy, None is not.
Truthy(h) == h # None

\* get_file_info: None when os.stat fails
get_file_info(d, filepath) ==
    IF ~Exists(d, filepath) THEN None
    ELSE [path |-> filepath, size |-> GetSize(d, filepath),
          mtime |-> GetMTime(d, filepath)]

\* ------------------------------------------------------------ dictionaries
\* A defaultdict(list) is a sequence of [key, val] in insertion order (the
\* order .items() and .values() iterate in).
HasKey(dct, k) == \E i \in DOMAIN dct : dct[i].key = k

\* The value put first in the key's list, and a new key first.
DictAppend_InFront(dct, k, v) ==
    IF HasKey(dct, k)
    THEN [i \in DOMAIN dct |->
            IF dct[i].key = k
            THEN [key |-> k, val |-> <<v>> \o dct[i].val]
            ELSE dct[i]]
    ELSE <<[key |-> k, val |-> <<v>>]>> \o dct

\* dct[k].append(v)
DictAppend(dct, k, v) ==
    IF HasKey(dct, k)
    THEN [i \in DOMAIN dct |->
            IF dct[i].key = k
            THEN [key |-> k, val |-> Append(dct[i].val, v)]
            ELSE dct[i]]
    ELSE Append(dct, [key |-> k, val |-> <<v>>])

\* --------------------------------------------------------------- the scan
\* "<=" written for "<".
BelowMinSize_OrEqual(size, min_size) == size <= min_size

\* "file_info['size'] < min_size": the entry is skipped.
BelowMinSize(size, min_size) == size < min_size

\* Step 1 of find_duplicate_photos_fast: size_groups, file_info by size.
RECURSIVE SizeGroups(_, _, _, _)
SizeGroups(d, i, min_size, size_groups) ==
    IF i > Len(d) THEN size_groups
    ELSE LET file_path == d[i].name
             file_info == get_file_info(d, file_path)
         IN  IF ~IsFile(d, file_path) THEN
                 SizeGroups(d, i + 1, min_size, size_groups)
             ELSE IF file_info = None
                     \/ BelowMinSize(file_info.size, min_size) THEN
                 SizeGroups(d, i + 1, min_size, size_groups)
             ELSE
                 SizeGroups(d, i + 1, min_size,
                            DictAppend(size_groups, file_info.size, file_info))

\* The loop over one size bucket computing sample hashes.  acc is
\* [groups |-> sample_hash_groups, errs |-> logged errors].
RECURSIVE SampleHashGroups(_, _, _, _)
SampleHashGroups(d, files, i, acc) ==
    IF i > Len(files) THEN acc
    ELSE LET sample_hash ==
                 calculate_file_hash_sample(d, files[i].path, DefaultSampleSize)
             logged == IF sample_hash = None
                       THEN Append(acc.errs,
                                   [fn |-> "calculate_file_hash_sample",
                                    path |-> files[i].path])
                       ELSE acc.errs
             groups == IF Truthy(sample_hash)
                       THEN DictAppend(acc.groups, sample_hash, files[i].path)
                       ELSE acc.groups
         IN  SampleHashGroups(d, files, i + 1,
                              [groups |-> groups, errs |-> logged])

\* The loop computing full hashes of a sequence of paths.
RECURSIVE FullHashGroups(_, _, _, _)
FullHashGroups(d, file_paths, i, acc) ==
    IF i > Len(file_paths) THEN acc
    ELSE LET full_hash ==
                 calculate_file_hash_fast(d, file_paths[i], DefaultChunkSize)
             logged == IF full_hash = None
                       THEN Append(acc.errs,
                                   [fn |-> "calculate_file_hash_fast",
                                    path |-> file_paths[i]])
                       ELSE acc.errs
             groups == IF Truthy(full_hash)
                       THEN DictAppend(acc.groups, full_hash, file_paths[i])
                       ELSE acc.groups
         IN  FullHashGroups(d, file_paths, i + 1,
                            [groups |-> groups, errs |-> logged])

\* "len(paths) > 0" written for "len(paths) > 1".
RECURSIVE AddGroups_NonEmpty(_, _, _)
AddGroups_NonEmpty(hash_groups, i, dups) ==
    IF i > Len(hash_groups) THEN dups
    ELSE AddGroups_NonEmpty(hash_groups, i + 1,
                            IF Len(hash_groups[i].val) > 0
                            THEN Append(dups, hash_groups[i].val)
                            ELSE dups)

\* "if len(paths) > 1: duplicates.append(paths)" over hash_groups.items().
RECURSIVE AddGroups(_, _, _)
AddGroups(hash_groups, i, dups) ==
    IF i > Len(hash_groups) THEN dups
    ELSE AddGroups(hash_groups, i + 1,
                   IF Len(hash_groups[i].val) > 1
                   THEN Append(dups, hash_groups[i].val)
                   ELSE dups)

\* The sample groups taken as duplicate groups, the full hashes left out.
RECURSIVE ConfirmSampleGroups_Unconfirmed(_, _, _, _)
ConfirmSampleGroups_Unconfirmed(d, sample_hash_groups, i, acc) ==
    IF i > Len(sample_hash_groups) THEN acc
    ELSE ConfirmSampleGroups_Unconfirmed(d, sample_hash_groups, i + 1,
             IF Len(sample_hash_groups[i].val) > 1
             THEN [acc EXCEPT !.dups = Append(@, sample_hash_groups[i].val)]
             ELSE acc)

\* The loop over sample_hash_groups.items().  acc is [dups, errs].
RECURSIVE ConfirmSampleGroups(_, _, _, _)
ConfirmSampleGroups(d, sample_hash_groups, i, acc) ==
    IF i > Len(sample_hash_groups) THEN acc
    ELSE LET file_paths == sample_hash_groups[i].val
         IN  IF Len(file_paths) > 1
             THEN LET hg == FullHashGroups(d, file_paths, 1,
                                           [groups |-> <<>>, errs |-> acc.errs])
                  IN  ConfirmSampleGroups(d, sample_hash_groups, i + 1,
                          [dups |-> AddGroups(hg.groups, 1, acc.dups),
                           errs |-> hg.errs])
             ELSE ConfirmSampleGroups(d, sample_hash_groups, i + 1, acc)

\* The paths of a bucket's file_info records.
PathsOf(files) == [i \in DOMAIN files |-> files[i].path]

\* Step 2 of find_duplicate_photos_fast: the loop over size_groups.items().
RECURSIVE ScanBuckets(_, _, _, _, _)
ScanBuckets(d, size_groups, i, use_sample_hash, acc) ==
    IF i > Len(size_groups) THEN acc
    ELSE LET files == size_groups[i].val
         IN  IF Len(files) = 1 THEN
                 ScanBuckets(d, size_groups, i + 1, use_sample_hash, acc)
             ELSE IF use_sample_hash THEN
                 LET sg == SampleHashGroups(d, files, 1,
                               [groups |-> <<>>, errs |-> acc.errs])
                 IN  ScanBuckets(d, size_groups, i + 1, use_sample_hash,
                         ConfirmSampleGroups(d, sg.groups, 1,
                             [dups |-> acc.dups, errs |-> sg.errs]))
             ELSE
                 LET hg == FullHashGroups(d, PathsOf(files), 1,
                               [groups |-> <<>>, errs |-> acc.errs])
                 IN  ScanBuckets(d, size_groups, i + 1, use_sample_hash,
                         [dups |-> AddGroups(hg.groups, 1, acc.dups),
                          errs |-> hg.errs])

\* find_duplicate_photos_fast raising for a folder path that is no directory.
find_duplicate_photos_fast_Raising(r, d, min_size, use_sample_hash) ==
    IF r # "dir" THEN [ret |-> <<>>, raised |-> TRUE, errs |-> <<>>]
    ELSE LET out == ScanBuckets(d, SizeGroups(d, 1, min_size, <<>>), 1,
                                use_sample_hash, [dups |-> <<>>, errs |-> <<>>])
         IN  [ret |-> out.dups, raised |-> FALSE, errs |-> out.errs]

\* find_duplicate_photos_fast(folder_path, min_size, use_sample_hash), where
\* folder_path is of kind r and lists as d.  The outcome is
\* [ret, errs, raised]: the returned list, the errors logged, and whether an
\* exception left the call (os.listdir of a directory that cannot be read).
find_duplicate_photos_fast(r, d, min_size, use_sample_hash) ==
    IF r = "missing" THEN
        [ret |-> <<>>, raised |-> FALSE,
         errs |-> <<[fn |-> "Folder does not exist", path |-> "folder_path"]>>]
    ELSE IF r = "file" THEN
        [ret |-> <<>>, raised |-> FALSE,
         errs |-> <<[fn |-> "Path is not a directory", path |-> "folder_path"]>>]
    ELSE IF r = "unlistable" THEN
        [ret |-> <<>>, raised |-> TRUE, errs |-> <<>>]
    ELSE LET out == ScanBuckets(d, SizeGroups(d, 1, min_size, <<>>), 1,
                                use_sample_hash, [dups |-> <<>>, errs |-> <<>>])
         IN  [ret |-> out.dups, raised |-> FALSE, errs |-> out.errs]

\* find_duplicate_photos(folder_path, min_size)
find_duplicate_photos(r, d, min_size) ==
    find_duplicate_photos_fast(r, d, min_size, TRUE)

\* The loop of find_duplicate_photos_by_size: size_groups of paths.
RECURSIVE SizeGroupsOfPaths(_, _, _, _)
SizeGroupsOfPaths(d, i, min_size, size_groups) ==
    IF i > Len(d) THEN size_groups
    ELSE LET file_path == d[i].name
             file_info == get_file_info(d, file_path)
         IN  IF ~IsFile(d, file_path) THEN
                 SizeGroupsOfPaths(d, i + 1, min_size, size_groups)
             ELSE IF file_info # None /\ file_info.size >= min_size THEN
                 SizeGroupsOfPaths(d, i + 1, min_size,
                     DictAppend(size_groups, file_info.size, file_path))
             ELSE
                 SizeGroupsOfPaths(d, i + 1, min_size, size_groups)

\* find_duplicate_photos_by_size(folder_path, min_size)
find_duplicate_photos_by_size(r, d, min_size) ==
    IF r = "missing" \/ r = "file" THEN
        [ret |-> <<>>, raised |-> FALSE,
         errs |-> <<[fn |-> "Invalid folder path", path |-> "folder_path"]>>]
    ELSE IF r = "unlistable" THEN
        [ret |-> <<>>, raised |-> TRUE, errs |-> <<>>]
    ELSE [ret |-> AddGroups(SizeGroupsOfPaths(d, 1, min_size, <<>>), 1, <<>>),
          raised |-> FALSE, errs |-> <<>>]

\* -------------------------------------------------------------- the remover
\* The loop building files_with_time: (file_path, mtime) of every member whose
\* os.path.getmtime succeeds; a failure is logged and the member left out.
\* acc is [fwt, errs].
RECURSIVE FilesWithTime(_, _, _, _)
FilesWithTime(d, duplicate_group, i, acc) ==
    IF i > Len(duplicate_group) THEN acc
    ELSE LET file_path == duplicate_group[i]
         IN  FilesWithTime(d, duplicate_group, i + 1,
                 IF Exists(d, file_path)
                 THEN [acc EXCEPT !.fwt = Append(@, [path |-> file_path,
                                        mtime |-> GetMTime(d, file_path)])]
                 ELSE [acc EXCEPT !.errs = Append(@, [fn |-> "getmtime",
                                                     path |-> file_path])])

\* list.reverse()
Reverse(xs) == [i \in DOMAIN xs |-> xs[Len(xs) + 1 - i]]

\* x put into the ascending sequence sorted, after every element whose key is
\* not greater (so equal keys keep their order).
RECURSIVE InsertByTime(_, _)
InsertByTime(sorted, x) ==
    IF sorted = <<>> THEN <<x>>
    ELSE IF sorted[Len(sorted)].mtime <= x.mtime THEN Append(sorted, x)
    ELSE Append(InsertByTime(SubSeq(sorted, 1, Len(sorted) - 1), x),
                sorted[Len(sorted)])

\* A stable ascending sort by mtime.
RECURSIVE StableSortByTime(_)
StableSortByTime(xs) ==
    IF xs = <<>> THEN <<>>
    ELSE InsertByTime(StableSortByTime(SubSeq(xs, 1, Len(xs) - 1)),
                      xs[Len(xs)])

\* reverse=True taken as "sort ascending, then reverse the result".
SortByTime_ReverseAfter(xs, rev) ==
    IF rev THEN Reverse(StableSortByTime(xs))
    ELSE StableSortByTime(xs)

\* files_with_time.sort(key=lambda x: x[1], reverse=rev): list.sort is stable,
\* and with reverse=True it reverses the list, sorts it and reverses it
\* again, which keeps the order of elements with equal keys.
SortByTime(xs, rev) ==
    IF rev THEN Reverse(StableSortByTime(Reverse(xs)))
    ELSE StableSortByTime(xs)

\* os.remove(file_path) succeeds: the path is an existing file and the
\* environment does not refuse the deletion.
CanRemove(d, file_path, failing) ==
    IsFile(d, file_path) /\ file_path \notin failing

\* The loop left at the first os.remove that fails.
RECURSIVE RemoveRest_StopAtFailure(_, _, _, _, _)
RemoveRest_StopAtFailure(fwt, i, g, failing, st) ==
    IF i > Len(fwt) THEN st
    ELSE LET file_path == fwt[i].path
             ok == CanRemove(st.d, file_path, failing)
             tried == [st EXCEPT !.attempts =
                          Append(@, [group |-> g, path |-> file_path, ok |-> ok])]
         IN  IF ok
             THEN RemoveRest_StopAtFailure(fwt, i + 1, g, failing,
                      [tried EXCEPT !.d = OsRemove(@, file_path),
                                    !.removed = Append(@, file_path)])
             ELSE [tried EXCEPT !.errs = Append(@, [fn |-> "remove",
                                                   path |-> file_path])]

\* "for file_path, _ in files_with_time[1:]" of group g: each os.remove is
\* tried; a failure is logged.  st is [d, removed, keeps, attempts, errs].
RECURSIVE RemoveRest(_, _, _, _, _)
RemoveRest(fwt, i, g, failing, st) ==
    IF i > Len(fwt) THEN st
    ELSE LET file_path == fwt[i].path
             ok == CanRemove(st.d, file_path, failing)
             tried == [st EXCEPT !.attempts =
                          Append(@, [group |-> g, path |-> file_path, ok |-> ok])]
         IN  RemoveRest(fwt, i + 1, g, failing,
                 IF ok
                 THEN [tried EXCEPT !.d = OsRemove(@, file_path),
                                    !.removed = Append(@, file_path)]
                 ELSE [tried EXCEPT !.errs = Append(@, [fn |-> "remove",
                                                      path |-> file_path])])

\* The retained file of a sorted files_with_time: "files_with_time[0][0]".
KeepFile(fwt) == fwt[1].path

\* The loop of remove_duplicates over the groups.
RECURSIVE RemoveGroups(_, _, _, _, _)
RemoveGroups(dups, g, keep_oldest, failing, st) ==
    IF g > Len(dups) THEN st
    ELSE IF Len(dups[g]) <= 1 THEN
        RemoveGroups(dups, g + 1, keep_oldest, failing, st)
    ELSE LET ft == FilesWithTime(st.d, dups[g], 1,
                                 [fwt |-> <<>>, errs |-> st.errs])
             st1 == [st EXCEPT !.errs = ft.errs]
         IN  IF ft.fwt = <<>> THEN
                 RemoveGroups(dups, g + 1, keep_oldest, failing, st1)
             ELSE LET fwt == SortByTime(ft.fwt, ~keep_oldest)
                      st2 == [st1 EXCEPT !.keeps =
                                 Append(@, [group |-> g, path |-> KeepFile(fwt)])]
                  IN  RemoveGroups(dups, g + 1, keep_oldest, failing,
                                   RemoveRest(fwt, 2, g, failing, st2))

\* remove_duplicates(duplicates, keep_oldest) in the directory d, where the
\* environment refuses to delete the paths in failing.  The outcome is
\* [d, removed, keeps, attempts, errs]: the directory afterwards, the
\* returned removed_files, the keep_file of every group that had one, the
\* calls of os.remove in order (the group, the path, whether it succeeded),
\* and the errors logged.
remove_duplicates(d, dups, keep_oldest, failing) ==
    RemoveGroups(dups, 1, keep_oldest, failing,
                 [d |-> d, removed |-> <<>>, keeps |-> <<>>,
                  attempts |-> <<>>, errs |-> <<>>])

\* "return removed_files": the returned value is the list of removed paths;
\* it has no part listing the failed deletions.
ReturnedFailures == <<>>

\* --------------------------------------------------------------- the report
\* "file_size * len(duplicate_group)" written for
\* "file_size * (len(duplicate_group) - 1)".
RECURSIVE ReportGroups_AllCopies(_, _, _, _)
ReportGroups_AllCopies(d, dups, g, space) ==
    IF g > Len(dups) THEN [raised |-> FALSE, space_saved |-> space]
    ELSE IF Len(dups[g]) > 1 THEN
        IF ~Exists(d, dups[g][1])
        THEN [raised |-> TRUE, space_saved |-> space]
        ELSE ReportGroups_AllCopies(d, dups, g + 1,
                          space + GetSize(d, dups[g][1]) * Len(dups[g]))
    ELSE ReportGroups_AllCopies(d, dups, g + 1, space)

\* The loop of print_duplicate_report: os.path.getsize(duplicate_group[0])
\* is outside any try, so a first member that no longer exists ends the call
\* with an exception.  The outcome is [raised, space_saved].
RECURSIVE ReportGroups(_, _, _, _)
ReportGroups(d, dups, g, space) ==
    IF g > Len(dups) THEN [raised |-> FALSE, space_saved |-> space]
    ELSE IF Len(dups[g]) > 1 THEN
        IF ~Exists(d, dups[g][1])
        THEN [raised |-> TRUE, space_saved |-> space]
        ELSE ReportGroups(d, dups, g + 1,
                          space + GetSize(d, dups[g][1]) * (Len(dups[g]) - 1))
    ELSE ReportGroups(d, dups, g + 1, space)

\* print_duplicate_report(duplicates, folder_path)
print_duplicate_report(d, dups) ==
    IF dups = <<>> THEN [raised |-> FALSE, space_saved |-> 0]
    ELSE ReportGroups(d, dups, 1, 0)

\* --------------------------------------------------------- inputs and Init
\* Bytes used in file contents: 'X', 'Y', 'Z'.
ContentBytes == <<88, 89, 90>>
ByteX == ContentBytes[1]
ByteY == ContentBytes[2]
ByteZ == ContentBytes[3]

\* File names of the directory's entries, by position in the listing.
FileNames == <<"a.jpg", "b.jpg", "c.jpg", "d.jpg", "e.jpg", "f.jpg">>
FileName(i) == FileNames[i]

\* Contents of the scanned files: below min_size's default; two of exactly
\* that size that differ; and two longer than twice the sample size that
\* differ only between the two samples.
Contents ==
    { <<Run(ByteX, 500)>>,
      <<Run(ByteX, DefaultMinSize)>>,
      <<Run(ByteY, DefaultMinSize)>>,
      <<Run(ByteX, 2 * DefaultSampleSize + 1)>>,
      <<Run(ByteX, DefaultSampleSize), Run(ByteY, 1),
        Run(ByteX, DefaultSampleSize)>> }

\* What one entry of the listing may be: a readable regular file, a file of
\* the default minimum size that cannot be opened, or a subdirectory.
EntryChoices ==
    [kind : {"file"}, content : Contents, mtime : {100}, readable : {TRUE}]
    \cup {[kind |-> "file", content |-> <<Run(ByteX, DefaultMinSize)>>,
           mtime |-> 100, readable |-> FALSE]}
    \cup {[kind |-> "dir", content |-> <<>>, mtime |-> 100, readable |-> FALSE]}

\* Entries of files that differ in modification time only.
TimedChoices ==
    [kind : {"file"}, content : {<<Run(ByteX, DefaultMinSize)>>},
     mtime : {50, 100}, readable : {TRUE}]

FileEntry(name, e) ==
    [name |-> name, kind |-> e.kind, content |-> e.content,
     mtime |-> e.mtime, readable |-> e.readable]

\* The listings of at most n entries drawn from choices.
Listings(choices, n) ==
    UNION { { [i \in 1..k |-> FileEntry(FileName(i), f[i])] :
              f \in [1..k -> choices] } : k \in 0..n }

\* f cut into groups after the positions in cuts.
RECURSIVE SplitAt(_, _, _)
SplitAt(f, cuts, start) ==
    IF start > Len(f) THEN <<>>
    ELSE LET stop == CHOOSE e \in start..Len(f) :
                         /\ e \in cuts \/ e = Len(f)
                         /\ \A x \in start..(e - 1) : x \notin cuts
         IN  <<SubSeq(f, start, stop)>> \o SplitAt(f, cuts, stop + 1)

\* The files of the directory remove_duplicates is tried on.
RemoveNames == <<"a.jpg", "b.jpg", "c.jpg">>

\* The directories holding every file of names, with any modification times.
TimedListings(names) ==
    { [i \in DOMAIN names |-> FileEntry(names[i], f[i])] :
      f \in [DOMAIN names -> TimedChoices] }

\* f names files by number, numbered in the order they first occur.
FirstOccurrenceOrder(f) ==
    \A i \in DOMAIN f :
        \/ f[i] = 1
        \/ \E j \in 1..(i - 1) : f[j] = f[i] \/ f[j] = f[i] - 1

\* The path occurrences in a list of groups.
RECURSIVE PathsCount(_)
PathsCount(groups) ==
    IF groups = <<>> THEN 0 ELSE Len(groups[1]) + PathsCount(Tail(groups))

\* Every group has at least two paths.
NoSingleton(groups) == \A g \in DOMAIN groups : Len(groups[g]) >= 2

\* The lists of non-empty groups over names with at most n path occurrences:
\* a path may occur twice in a group, or in two groups.  A list of n
\* occurrences has no group of a single path (remove_duplicates skips such a
\* group).  The files are taken in the order they first occur in the list;
\* every assignment of modification times to them is drawn with it.
GroupLists(names, n) ==
    { groups \in
        UNION { UNION { { SplitAt([i \in 1..k |-> names[f[i]]], cuts, 1) :
                          cuts \in SUBSET (1..(k - 1)) } :
                        f \in { g \in [1..k -> DOMAIN names] :
                                FirstOccurrenceOrder(g) } } : k \in 0..n } :
      PathsCount(groups) < n \/ NoSingleton(groups) }

\* Values of min_size a caller passes.
MinSizes == {1000, DefaultMinSize}

RootKinds == {"missing", "file", "unlistable", "dir"}

NoCall ==
    [op |-> "none", min_size |-> DefaultMinSize, use_sample_hash |-> TRUE,
     keep_oldest |-> TRUE]

InitOutputs ==
    /\ call = NoCall
    /\ removed_files = <<>>
    /\ keep_files = <<>>
    /\ attempts = <<>>
    /\ errlog = <<>>
    /\ raised = FALSE
    /\ space_saved = 0
    /\ scans = 0

\* A folder path of any kind; a directory holds at most MaxFiles entries.
\* The caller holds no groups yet.
Init ==
    /\ root \in RootKinds
    /\ fs \in (IF root = "dir" THEN Listings(EntryChoices, MaxFiles)
               ELSE {<<>>})
    /\ duplicates = <<>>
    /\ InitOutputs

\* A directory of files that differ in modification time, and a caller
\* holding any list of groups over the names.
InitRemove ==
    /\ root = "dir"
    /\ fs \in TimedListings(RemoveNames)
    /\ duplicates \in GroupLists(RemoveNames, MaxPaths)
    /\ InitOutputs

\* The directory of the scenario: a.jpg and b.jpg of 1000 bytes with the same
\* content, c.jpg of 1000 bytes with another, d.jpg of 2000 bytes.
ScenarioFiles ==
    << [name |-> "a.jpg", kind |-> "file", content |-> <<Run(ByteX, 1000)>>,
        mtime |-> 100, readable |-> TRUE],
       [name |-> "b.jpg", kind |-> "file", content |-> <<Run(ByteX, 1000)>>,
        mtime |-> 100, readable |-> TRUE],
       [name |-> "c.jpg", kind |-> "file", content |-> <<Run(ByteY, 1000)>>,
        mtime |-> 100, readable |-> TRUE],
       [name |-> "d.jpg", kind |-> "file", content |-> <<Run(ByteZ, 2000)>>,
        mtime |-> 100, readable |-> TRUE] >>

\* The orders os.listdir may list xs in.
ListingOrders(xs) ==
    { [i \in DOMAIN xs |-> xs[f[i]]] :
      f \in { g \in [DOMAIN xs -> DOMAIN xs] :
              \A i, j \in DOMAIN xs : g[i] = g[j] => i = j } }

\* The scenario's directory, listed in any order.
InitScenario ==
    /\ root = "dir"
    /\ fs \in ListingOrders(ScenarioFiles)
    /\ duplicates = <<>>
    /\ InitOutputs

\* Contents whose sizes lie around the sample boundaries (sample_size + 1,
\* 2 * sample_size and 2 * sample_size + 1 bytes), differing in one byte of
\* the first sample, of the last sample_size bytes, or between the two.
SampleContents ==
    { <<Run(ByteX, DefaultSampleSize + 1)>>,
      <<Run(ByteX, DefaultSampleSize), Run(ByteY, 1)>>,
      <<Run(ByteY, 1), Run(ByteX, DefaultSampleSize)>>,
      <<Run(ByteX, 2 * DefaultSampleSize)>>,
      <<Run(ByteY, 1), Run(ByteX, 2 * DefaultSampleSize - 1)>>,
      <<Run(ByteX, 2 * DefaultSampleSize - 1), Run(ByteY, 1)>>,
      <<Run(ByteX, DefaultSampleSize), Run(ByteY, 1),
        Run(ByteX, DefaultSampleSize - 1)>>,
      <<Run(ByteX, 2 * DefaultSampleSize + 1)>>,
      <<Run(ByteX, 2 * DefaultSampleSize), Run(ByteY, 1)>>,
      <<Run(ByteX, DefaultSampleSize), Run(ByteY, 1),
        Run(ByteX, DefaultSampleSize)>> }

\* Readable files with those contents.
SampleChoices ==
    [kind : {"file"}, content : SampleContents, mtime : {100}, readable : {TRUE}]

\* The files of the directory the sample digest is tried on.
SampleNames == <<"a.jpg", "b.jpg">>

\* A directory of two readable files with contents around the sample
\* boundaries; the caller holds no groups yet.
InitSample ==
    /\ root = "dir"
    /\ fs \in { [i \in DOMAIN SampleNames |-> FileEntry(SampleNames[i], f[i])] :
                f \in [DOMAIN SampleNames -> SampleChoices] }
    /\ duplicates = <<>>
    /\ InitOutputs

\* ----------------------------------------------------------------- actions
\* A call of a scan function that returned out: the caller's duplicates is
\* assigned unless the call raised.
Scanned(c, outcome) ==
    \E out \in {outcome} :
    /\ call' = c
    /\ duplicates' = IF out.raised THEN duplicates ELSE out.ret
    /\ errlog' = out.errs
    /\ raised' = out.raised
    /\ removed_files' = <<>>
    /\ keep_files' = <<>>
    /\ attempts' = <<>>
    /\ space_saved' = 0
    /\ scans' = IF call = c THEN 2 ELSE 1
    /\ UNCHANGED <<root, fs>>

\* duplicates = find_duplicate_photos_fast(folder_path, min_size, use_sample_hash)
CallFindDuplicatePhotosFast ==
    \E min_size \in MinSizes, use_sample_hash \in BOOLEAN :
        Scanned([op |-> "find_duplicate_photos_fast", min_size |-> min_size,
                 use_sample_hash |-> use_sample_hash, keep_oldest |-> TRUE],
                find_duplicate_photos_fast(root, fs, min_size, use_sample_hash))

\* duplicates = find_duplicate_photos(folder_path[, min_size]): a call that
\* gives no min_size passes its default, DefaultMinSize.
CallFindDuplicatePhotos ==
    \E min_size \in MinSizes :
        Scanned([op |-> "find_duplicate_photos", min_size |-> min_size,
                 use_sample_hash |-> TRUE, keep_oldest |-> TRUE],
                find_duplicate_photos(root, fs, min_size))

\* duplicates = find_duplicate_photos_by_size(folder_path, min_size)
CallFindDuplicatePhotosBySize ==
    \E min_size \in MinSizes :
        Scanned([op |-> "find_duplicate_photos_by_size", min_size |-> min_size,
                 use_sample_hash |-> FALSE, keep_oldest |-> TRUE],
                find_duplicate_photos_by_size(root, fs, min_size))

\* The paths occurring in the groups of more than one path.
PathsIn(dups) ==
    UNION { IF Len(dups[g]) > 1 THEN {dups[g][i] : i \in DOMAIN dups[g]} ELSE {} :
            g \in DOMAIN dups }

\* removed = remove_duplicates(duplicates, keep_oldest); the environment
\* refuses the deletion of any set of the paths.
CallRemoveDuplicates ==
    \E keep_oldest \in BOOLEAN,
       failing \in SUBSET (PathsIn(duplicates) \cap Names(fs)) :
        \E out \in {remove_duplicates(fs, duplicates, keep_oldest, failing)} :
            /\ call' = [op |-> "remove_duplicates", min_size |-> DefaultMinSize,
                        use_sample_hash |-> TRUE, keep_oldest |-> keep_oldest]
            /\ fs' = out.d
            /\ removed_files' = out.removed
            /\ keep_files' = out.keeps
            /\ attempts' = out.attempts
            /\ errlog' = out.errs
            /\ raised' = FALSE
            /\ space_saved' = 0
            /\ scans' = 0
            /\ UNCHANGED <<root, duplicates>>

\* print_duplicate_report(duplicates, folder_path)
CallPrintDuplicateReport ==
    \E out \in {print_duplicate_report(fs, duplicates)} :
        /\ call' = [op |-> "print_duplicate_report",
                    min_size |-> DefaultMinSize,
                    use_sample_hash |-> TRUE, keep_oldest |-> TRUE]
        /\ raised' = out.raised
        /\ space_saved' = out.space_saved
        /\ removed_files' = <<>>
        /\ keep_files' = <<>>
        /\ attempts' = <<>>
        /\ errlog' = <<>>
        /\ scans' = 0
        /\ UNCHANGED <<root, fs, duplicates>>

Next ==
    \/ CallFindDuplicatePhotosFast
    \/ CallFindDuplicatePhotos
    \/ CallFindDuplicatePhotosBySize
    \/ CallRemoveDuplicates
    \/ CallPrintDuplicateReport

Spec == Init /\ [][Next]_vars

SpecRemove == InitRemove /\ [][Next]_vars

SpecScenario == InitScenario /\ [][Next]_vars

SpecSample == InitSample /\ [][Next]_vars

\* ---------------------------------------------------------------- properties
\* The last call was find_duplicate_photos_fast, directly or through
\* find_duplicate_photos.
IsFast == call.op \in {"find_duplicate_photos_fast", "find_duplicate_photos"}

IsBySize == call.op = "find_duplicate_photos_by_size"

IsRemove == call.op = "remove_duplicates"

IsReport == call.op = "print_duplicate_report"

Members(g) == {duplicates[g][i] : i \in DOMAIN duplicates[g]}

Grouped(p) == \E g \in DOMAIN duplicates : p \in Members(g)

SameGroup(p, q) == \E g \in DOMAIN duplicates : p \in Members(g) /\ q \in Members(g)

\* The bytes of a file.  MD5 being collision free, two files have the same
\* full-content digest exactly when they have the same bytes.
ContentOf(p) == Entry(fs, p).content

\* Two different readable regular files with the same bytes.
Identical(p, q) ==
    /\ p # q
    /\ CanOpen(fs, p) /\ CanOpen(fs, q)
    /\ ContentOf(p) = ContentOf(q)

C2_SampleFilterSound ==
    (IsFast /\ call.use_sample_hash /\ root = "dir") =>
        /\ \A p, q \in Names(fs) :
             Identical(p, q) =>
                calculate_file_hash_sample(fs, p, DefaultSampleSize)
                  = calculate_file_hash_sample(fs, q, DefaultSampleSize)
        /\ \A p, q \in Names(fs) :
             (Identical(p, q) /\ GetSize(fs, p) >= call.min_size)
                => SameGroup(p, q)
        /\ \A p, q \in Names(fs) :
             SameGroup(p, q) =>
                calculate_file_hash_sample(fs, p, DefaultSampleSize)
                  = calculate_file_hash_sample(fs, q, DefaultSampleSize)

\* Two identical files longer than twice the sample size (both samples are
\* read) are grouped, and a third file with their sample digest but other
\* bytes is not.
C2_Witness ==
    /\ IsFast /\ call.use_sample_hash
    /\ \E p, q, r \in Names(fs) :
         /\ Identical(p, q) /\ SameGroup(p, q)
         /\ GetSize(fs, p) > 2 * DefaultSampleSize
         /\ CanOpen(fs, r) /\ ~Grouped(r)
         /\ calculate_file_hash_sample(fs, r, DefaultSampleSize)
              = calculate_file_hash_sample(fs, p, DefaultSampleSize)

\* C7: a file smaller than min_size is in no size bucket and in no group of
\* find_duplicate_photos_fast or find_duplicate_photos_by_size; a file of
\* exactly min_size is eligible (it is grouped with an identical file).
C7_MinSizeFilter ==
    ((IsFast \/ IsBySize) /\ root = "dir") =>
        /\ \A g \in DOMAIN duplicates : \A p \in Members(g) :
             GetSize(fs, p) >= call.min_size
        /\ LET buckets == SizeGroups(fs, 1, call.min_size, <<>>)
           IN  \A b \in DOMAIN buckets : \A i \in DOMAIN buckets[b].val :
                  GetSize(fs, buckets[b].val[i].path) >= call.min_size
        /\ LET buckets == SizeGroupsOfPaths(fs, 1, call.min_size, <<>>)
           IN  \A b \in DOMAIN buckets : \A i \in DOMAIN buckets[b].val :
                  GetSize(fs, buckets[b].val[i]) >= call.min_size
        /\ \A p, q \in Names(fs) :
             (Identical(p, q) /\ GetSize(fs, p) = call.min_size)
                => SameGroup(p, q)

\* A scan with min_size=1024 grouped files of exactly 1024 bytes and left a
\* 500-byte file out.
C7_Witness ==
    /\ IsFast /\ call.min_size = DefaultMinSize
    /\ \E p, q \in Names(fs) :
         /\ IsFile(fs, p) /\ GetSize(fs, p) = 500 /\ ~Grouped(p)
         /\ Grouped(q) /\ GetSize(fs, q) = DefaultMinSize

\* C9: a file that cannot be read is the only one dropped: the scan does not
\* raise, no group holds an unreadable file, and readable identical files
\* that share a size bucket with an unreadable file are in one group.
C9_ReadFailureIsLocal ==
    (IsFast /\ root = "dir") =>
        /\ ~raised
        /\ \A p \in Names(fs) : Grouped(p) => CanOpen(fs, p)
        /\ \A u, p, q \in Names(fs) :
             ( /\ IsFile(fs, u) /\ ~CanOpen(fs, u)
               /\ Identical(p, q)
               /\ GetSize(fs, u) = GetSize(fs, p)
               /\ GetSize(fs, p) >= call.min_size )
             => SameGroup(p, q)

\* An unreadable file shared a bucket with two identical readable files: it
\* was logged and left out, and the two were grouped.
C9_Witness ==
    /\ IsFast /\ ~raised
    /\ \E u, p, q \in Names(fs) :
         /\ IsFile(fs, u) /\ ~CanOpen(fs, u) /\ ~Grouped(u)
         /\ Identical(p, q) /\ SameGroup(p, q)
         /\ GetSize(fs, u) = GetSize(fs, p)
         /\ \E k \in DOMAIN errlog : errlog[k].path = u

\* The last call was one of the scans.
IsScan == IsFast \/ IsBySize

\* C5 as stated: a scan of a root path that does not exist, or is not a
\* directory, fails with an error (an outcome other than that of a scan which
\* found no duplicates).
C5_InvalidRootFails ==
    (IsScan /\ root \in {"missing", "file"}) => raised

\* C5 as amended: such a scan does not fail: it logs one error about the
\* folder path and returns the empty list, which is also what a scan that
\* found no duplicates returns.
C5_InvalidRootReturnsEmpty ==
    (IsScan /\ root \in {"missing", "file"}) =>
        /\ ~raised
        /\ duplicates = <<>>
        /\ Len(errlog) = 1
        /\ errlog[1].path = "folder_path"

\* find_duplicate_photos_fast was called on a path that does not exist.
C5_Witness ==
    /\ call.op = "find_duplicate_photos_fast"
    /\ root = "missing"
    /\ errlog = <<[fn |-> "Folder does not exist", path |-> "folder_path"]>>
    /\ duplicates = <<>> /\ ~raised

\* The position of path p in the listing d.
IndexOf(d, p) == CHOOSE i \in DOMAIN d : d[i].name = p

\* The members of every group are in the order the directory lists them.
InScanOrder(dups, d) ==
    \A g \in DOMAIN dups : \A i, j \in DOMAIN dups[g] :
        i < j => IndexOf(d, dups[g][i]) < IndexOf(d, dups[g][j])

ScenarioWhole == Names(fs) = {"a.jpg", "b.jpg", "c.jpg", "d.jpg"}

\* The list holds one group, of a.jpg and b.jpg.
OnlyAB ==
    /\ Len(duplicates) = 1
    /\ Len(duplicates[1]) = 2
    /\ Members(1) = {"a.jpg", "b.jpg"}

\* C8 as stated: find_duplicate_photos(folder) with no further option, on a
\* directory of a.jpg, b.jpg (1000 bytes, same content), c.jpg (1000 bytes,
\* other content) and d.jpg (2000 bytes), returns exactly the group
\* {a.jpg, b.jpg}.
C8_DefaultCallFindsAB ==
    ( /\ ScenarioWhole
      /\ call.op = "find_duplicate_photos"
      /\ call.min_size = DefaultMinSize )
    => OnlyAB

\* C8 as amended: with min_size=1000 the call returns exactly the group
\* {a.jpg, b.jpg} (c.jpg and d.jpg in no group), and the report of that list
\* gives 1000 reclaimable bytes; with no option given min_size is 1024, the
\* three 1000-byte files are filtered out and no group is returned.
C8_ScenarioWithMinSize ==
    ScenarioWhole =>
    /\ (call.op = "find_duplicate_photos" /\ call.min_size = 1000) =>
          (OnlyAB /\ ~Grouped("c.jpg") /\ ~Grouped("d.jpg") /\ ~raised)
    /\ (call.op = "find_duplicate_photos" /\ call.min_size = DefaultMinSize) =>
          duplicates = <<>>
    /\ (IsReport /\ ~raised /\ OnlyAB) => space_saved = 1000
    /\ (IsReport /\ duplicates = <<>>) => space_saved = 0

\* The scenario's directory, whole, was scanned with min_size=1000 and the
\* group {a.jpg, b.jpg} then reported with 1000 bytes to save.
C8_Witness ==
    /\ IsReport /\ ~raised
    /\ OnlyAB
    /\ ScenarioWhole
    /\ space_saved = 1000

\* C3: remove_duplicates never deletes the file it chose to retain: after the
\* call the keep_file of every group still exists, whatever the groups hold
\* (a path twice in a group, a path in several groups) and whatever
\* deletions failed.
C3_RetainedFileSurvives ==
    IsRemove => \A k \in DOMAIN keep_files : Exists(fs, keep_files[k].path)

\* In a step that is a call of remove_duplicates (fs and duplicates are the
\* directory and the list it is called on, the primed variables its outcome):
\* p exists when the loop reaches group g, that is, it existed at the call
\* and no earlier group's os.remove deleted it.
AliveAt(g, p) ==
    /\ Exists(fs, p)
    /\ ~\E k \in DOMAIN attempts' :
          attempts'[k].group < g /\ attempts'[k].ok /\ attempts'[k].path = p

\* The positions of group g whose path has a modification time then.
Timed(g) == {i \in DOMAIN duplicates[g] : AliveAt(g, duplicates[g][i])}

\* The positions with the minimum (keep_oldest) or maximum modification time.
Extreme(g, keep_oldest) ==
    {i \in Timed(g) : \A j \in Timed(g) :
        IF keep_oldest
        THEN GetMTime(fs, duplicates[g][i]) <= GetMTime(fs, duplicates[g][j])
        ELSE GetMTime(fs, duplicates[g][i]) >= GetMTime(fs, duplicates[g][j])}

\* The first of them in the group's order.
FirstExtreme(g, keep_oldest) ==
    CHOOSE i \in Extreme(g, keep_oldest) :
        \A j \in Extreme(g, keep_oldest) : i <= j

\* The groups remove_duplicates retains a file of.
Processed(g) == Len(duplicates[g]) > 1 /\ Timed(g) # {}

\* The calls of os.remove made for group g.
AttemptsOf(g) == {k \in DOMAIN attempts' : attempts'[k].group = g}

\* C4: the retained file of a group is its member with the minimum
\* modification time when keep_oldest=True and the maximum when
\* keep_oldest=False, the first such member in the group's order for both
\* settings; the other members are the ones removed.
C4_RetainedByTime ==
    [][ call'.op = "remove_duplicates" =>
          /\ {keep_files'[k].group : k \in DOMAIN keep_files'}
               = {g \in DOMAIN duplicates : Processed(g)}
          /\ \A k \in DOMAIN keep_files' :
               LET g == keep_files'[k].group
                   kept == FirstExtreme(g, call'.keep_oldest)
               IN  /\ keep_files'[k].path = duplicates[g][kept]
                   /\ {attempts'[a].path : a \in AttemptsOf(g)}
                        = {duplicates[g][i] : i \in Timed(g) \ {kept}}
      ]_vars

\* The group [a.jpg, b.jpg, c.jpg] with times 100, 50, 50 and
\* keep_oldest=True: b.jpg was retained and c.jpg and a.jpg were the ones
\* os.remove was called on (the deletions were refused, so the three times
\* can still be read).
C4_Witness ==
    /\ IsRemove /\ call.keep_oldest
    /\ duplicates = <<<<"a.jpg", "b.jpg", "c.jpg">>>>
    /\ Names(fs) = {"a.jpg", "b.jpg", "c.jpg"}
    /\ GetMTime(fs, "a.jpg") = 100
    /\ GetMTime(fs, "b.jpg") = 50
    /\ GetMTime(fs, "c.jpg") = 50
    /\ keep_files = <<[group |-> 1, path |-> "b.jpg"]>>
    /\ {attempts[k].path : k \in DOMAIN attempts} = {"a.jpg", "c.jpg"}

\* The paths of a sequence of records.
PathsOfRecords(recs) == [i \in DOMAIN recs |-> recs[i].path]

Succeeded(a) == a.ok
Failed(a) == ~a.ok
IsRemoveError(e) == e.fn = "remove"

\* The paths in a sequence.
Range(seq) == {seq[i] : i \in DOMAIN seq}

\* C6 as stated: every path whose deletion was attempted is in exactly one
\* of removed and failures, the two parts of the returned result.
C6_AttemptInRemovedOrFailures ==
    IsRemove =>
        \A k \in DOMAIN attempts :
            (attempts[k].path \in Range(removed_files))
              # (attempts[k].path \in Range(ReturnedFailures))

\* C6 as amended: each deletion is attempted independently: a failure is
\* logged (the returned result has no failures part) and prevents no other
\* attempt: for every group every member but the retained one is attempted,
\* whatever failed before in the group or in earlier groups; every attempt
\* ends either in the returned removed_files or in the error log; and the
\* call does not raise.
C6_AttemptsIndependent ==
    [][ call'.op = "remove_duplicates" =>
          /\ \A g \in DOMAIN duplicates :
               Cardinality(AttemptsOf(g))
                 = IF Processed(g) THEN Cardinality(Timed(g)) - 1 ELSE 0
          /\ removed_files' = PathsOfRecords(SelectSeq(attempts', Succeeded))
          /\ PathsOfRecords(SelectSeq(errlog', IsRemoveError))
               = PathsOfRecords(SelectSeq(attempts', Failed))
          /\ ~raised'
      ]_vars

\* A deletion failed in one group, and a later deletion succeeded in a later
\* group.
C6_Witness ==
    /\ IsRemove
    /\ \E i, j \in DOMAIN attempts :
         /\ i < j
         /\ ~attempts[i].ok /\ attempts[j].ok
         /\ attempts[i].group < attempts[j].group

\* A list of groups as a scan returns it: every group has at least two
\* members and no path occurs twice.
ScanShaped(dups) ==
    /\ \A g \in DOMAIN dups : Len(dups[g]) >= 2
    /\ \A g, h \in DOMAIN dups :
         \A i \in DOMAIN dups[g], j \in DOMAIN dups[h] :
            dups[g][i] = dups[h][j] => (g = h /\ i = j)

\* C11: print_duplicate_report, called on the groups of a scan after an
\* optional remove_duplicates on the same groups, completes without raising
\* even when a member of a group (the first member included) no longer
\* exists.
C11_ReportCompletes ==
    (IsReport /\ ScanShaped(duplicates)) => ~raised

\* Every regular file of the directory can be opened and read.
AllReadable == \A p \in Names(fs) : IsFile(fs, p) => CanOpen(fs, p)

\* The groups of a list, each as the set of its members.
GroupSets(dups) == {Range(dups[g]) : g \in DOMAIN dups}

\* What find_duplicate_photos_fast returns on the directory for the last
\* call's min_size with the sample stage switched the other way.
OtherStageResult ==
    find_duplicate_photos_fast(root, fs, call.min_size, ~call.use_sample_hash).ret

\* C12: in a directory whose files are all readable,
\* find_duplicate_photos_fast returns with use_sample_hash=False the same set
\* of groups (same members per group, the order of the groups disregarded,
\* and as many groups) as with use_sample_hash=True.
C12_SampleStageOff ==
    (IsFast /\ root = "dir" /\ AllReadable) =>
        /\ GroupSets(duplicates) = GroupSets(OtherStageResult)
        /\ Len(duplicates) = Len(OtherStageResult)

\* A scan with use_sample_hash=False grouped two identical files and left
\* out a third with their sample digest and other bytes (a file the sample
\* stage hands on to the full digest).
C12_Witness ==
    /\ IsFast /\ ~call.use_sample_hash /\ ~raised
    /\ AllReadable
    /\ \E p, q, r \in Names(fs) :
         /\ Identical(p, q) /\ SameGroup(p, q)
         /\ CanOpen(fs, r) /\ ~Grouped(r)
         /\ calculate_file_hash_sample(fs, r, DefaultSampleSize)
              = calculate_file_hash_sample(fs, p, DefaultSampleSize)

\* The first N bytes and the last N bytes of a file (all of it when it is
\* shorter than N).
FirstBytes(p, N) == Read(ContentOf(p), 0, N)
LastBytes(p, N) == Read(ContentOf(p), GetSize(fs, p) - N, N)

\* The sample digest the scan computes of a file.
SampleDigest(p) == calculate_file_hash_sample(fs, p, DefaultSampleSize)

\* C13: the sample digest is determined by the first N bytes, the last N
\* bytes and the size, for every file size (N = sample_size): two readable
\* files of equal size with the same first N and last N bytes have the same
\* sample digest, two that differ in their first N or in their last N bytes
\* have different sample digests, and two of size <= 2*N with different
\* content have different sample digests.
C13_SampleCoversBothEnds ==
    (IsFast /\ call.use_sample_hash /\ root = "dir") =>
        \A p, q \in Names(fs) :
            ( /\ CanOpen(fs, p) /\ CanOpen(fs, q)
              /\ GetSize(fs, p) = GetSize(fs, q) )
            => /\ ( /\ FirstBytes(p, DefaultSampleSize)
                         = FirstBytes(q, DefaultSampleSize)
                    /\ LastBytes(p, DefaultSampleSize)
                         = LastBytes(q, DefaultSampleSize) )
                  => SampleDigest(p) = SampleDigest(q)
               /\ ( \/ FirstBytes(p, DefaultSampleSize)
                         # FirstBytes(q, DefaultSampleSize)
                    \/ LastBytes(p, DefaultSampleSize)
                         # LastBytes(q, DefaultSampleSize) )
                  => SampleDigest(p) # SampleDigest(q)
               /\ ( /\ GetSize(fs, p) <= 2 * DefaultSampleSize
                    /\ ContentOf(p) # ContentOf(q) )
                  => SampleDigest(p) # SampleDigest(q)

====
